---------------------------- MODULE Spec2Model ----------------------------
(***************************************************************************)
(* A model of tinynn's core: the layers of core/layers.py (Conv2D,         *)
(* MaxPool2D, Dropout, Dense, ...) and the Net / StructuredParam classes   *)
(* of core/net.py.                                                         *)
(*                                                                         *)
(* A tensor is a record [shape, data]: data is the row-major (C order)     *)
(* buffer, a function on 0..size-1, so that reshape keeps the buffer and   *)
(* changes the shape, as numpy does.  Every image tensor is one sample:    *)
(* the batch axis (size 1) is dropped, every other axis is kept.           *)
(***************************************************************************)
EXTENDS Integers, Sequences, FiniteSets, TLC

VARIABLES conv, convRes, pool, poolRes, drop, dropRes, dropFwd, net, netRes, netOut,
          heap, pnet, sp, spRes, spOps

vars == <<conv, convRes, pool, poolRes, drop, dropRes, dropFwd, net, netRes, netOut,
          heap, pnet, sp, spRes, spOps>>
paramVars == <<heap, pnet, sp, spRes, spOps>>
netVars == <<net, netRes, netOut>>
convVars == <<conv, convRes>>
poolVars == <<pool, poolRes>>
dropVars == <<drop, dropRes, dropFwd>>

\* Python's None (also an attribute not yet set)
None == [none |-> TRUE]

(***************************************************************************)
(* Bounds of the model.                                                    *)
(***************************************************************************)
MaxK == 2          \* kernel / pool extents are 1..MaxK
MaxIn == 3         \* input heights and widths are 1..MaxIn
MaxChan == 1       \* channel counts are 1..MaxChan
MaxLen == 2        \* Dropout's tensors have 1..MaxLen elements
MaxLayers == 2     \* a Net has 1..MaxLayers layers
MaxOps == 2        \* operator calls made on StructuredParams

Strides == {<<1, 1>>, <<1, 2>>, <<2, 1>>, <<2, 2>>}
ConvModes == {"FULL", "SAME", "VALID"}

(***************************************************************************)
(* numpy helpers.                                                          *)
(***************************************************************************)
RECURSIVE SumFn(_, _)
SumFn(f, n) == IF n <= 0 THEN 0 ELSE f[n - 1] + SumFn(f, n - 1)

RECURSIVE Prod(_)
Prod(s) == IF s = <<>> THEN 1 ELSE Head(s) * Prod(Tail(s))

Max2(a, b) == IF a >= b THEN a ELSE b

Tensor(shape, data) == [shape |-> shape, data |-> data]

\* np.zeros(shape)
Zeros(shape) == Tensor(shape, [i \in 0..(Prod(shape) - 1) |-> 0])

\* element [y, x, c] of a (h, w, c) tensor
At3(t, y, x, c) == t.data[(y * t.shape[2] + x) * t.shape[3] + c]

\* element [r, c] of a (rows, cols) matrix
At2(m, r, c) == m.data[r * m.shape[2] + c]

\* t.reshape(shape); the caller guards the sizes
Reshape(t, shape) == Tensor(shape, t.data)

\* a @ b for matrices
MatMul(a, b) ==
    Tensor(<<a.shape[1], b.shape[2]>>,
           [i \in 0..(a.shape[1] * b.shape[2] - 1) |->
              SumFn([k \in 0..(a.shape[2] - 1) |->
                       At2(a, i \div b.shape[2], k) * At2(b, k, i % b.shape[2])],
                    a.shape[2])])

\* m.T for a matrix
Transpose(m) ==
    Tensor(<<m.shape[2], m.shape[1]>>,
           [i \in 0..(m.shape[1] * m.shape[2] - 1) |->
              At2(m, i % m.shape[1], i \div m.shape[1])])

\* np.pad(img, ((top, bottom), (left, right), (0, 0)), mode="constant")
ZeroPad(img, top, bottom, left, right) ==
    LET h == img.shape[1] + top + bottom
        w == img.shape[2] + left + right
        c == img.shape[3]
    IN Tensor(<<h, w, c>>,
              [i \in 0..(h * w * c - 1) |->
                 LET y == i \div (w * c)
                     x == (i \div c) % w
                     ch == i % c
                 IN IF /\ y >= top /\ y < top + img.shape[1]
                       /\ x >= left /\ x < left + img.shape[2]
                    THEN At3(img, y - top, x - left, ch)
                    ELSE 0])

\* t[r0:r1, c0:c1, :] with 0 <= r0, c0 and the ends clipped as Python clips them
Slice3(t, r0, r1, c0, c1) ==
    LET e1 == IF r1 > t.shape[1] THEN t.shape[1] ELSE r1
        e2 == IF c1 > t.shape[2] THEN t.shape[2] ELSE c1
        h == Max2(e1 - r0, 0)
        w == Max2(e2 - c0, 0)
        c == t.shape[3]
    IN Tensor(<<h, w, c>>,
              [i \in 0..(h * w * c - 1) |->
                 At3(t, r0 + (i \div (w * c)), c0 + ((i \div c) % w), i % c)])

\* the tensors the model feeds the layers
IndexTensor(shape) == Tensor(shape, [i \in 0..(Prod(shape) - 1) |-> i + 1])
OnesTensor(shape) == Tensor(shape, [i \in 0..(Prod(shape) - 1) |-> 1])
(***************************************************************************)
(* Conv2D (core/layers.py).                                                *)
(***************************************************************************)
\* Conv2D._get_padding: the list [pad[0], pad[1], pad[2], pad[3]]
ConvGetPadding(k_h, k_w, mode) ==
    IF mode = "FULL" THEN <<k_h - 1, k_w - 1, k_h - 1, k_w - 1>>
    ELSE IF mode = "VALID" THEN <<0, 0, 0, 0>>
    ELSE <<(k_h - 1) \div 2,
           (k_h - 1) \div 2 + (IF k_h % 2 = 0 THEN 1 ELSE 0),
           (k_w - 1) \div 2,
           (k_w - 1) \div 2 + (IF k_w % 2 = 0 THEN 1 ELSE 0)>>

\* Conv2D._im2col on one padded sample
Im2col(img, k_h, k_w, s_h, s_w) ==
    LET h == img.shape[1]
        w == img.shape[2]
        in_c == img.shape[3]
        out_h == (h - k_h) \div s_h + 1
        out_w == (w - k_w) \div s_w + 1
        kk == k_h * k_w * in_c
    IN Tensor(<<out_h * out_w, kk>>,
              [i \in 0..(out_h * out_w * kk - 1) |->
                 LET row == i \div kk
                     p == i % kk
                     r == row \div out_w
                     c == row % out_w
                 IN At3(img, r * s_h + (p \div (k_w * in_c)),
                             c * s_w + ((p \div in_c) % k_w),
                             p % in_c)])

\* len(range(0, stop, step))
RangeLen(stop, step) == IF stop <= 0 THEN 0 ELSE (stop + step - 1) \div step

\* what an initializer returns for a shape: the initializers are supplied by
\* the caller (core/initializer.py); "index" and "ones" stand for two of them
Initialize(kind, shape) ==
    IF kind = "index" THEN IndexTensor(shape)
    ELSE IF kind = "ones" THEN OnesTensor(shape)
    ELSE Zeros(shape)

\* Conv2D.__init__; padding is the constructor's argument, which the
\* code reads once (for self.pad) and the model keeps for reference
ConvNew(kernel, stride, padding, w_init, b_init) ==
    [constructed |-> TRUE,
     kernel_shape |-> kernel,
     stride_shape |-> stride,
     padding |-> padding,
     initializers |-> [w |-> w_init, b |-> b_init],
     pad |-> ConvGetPadding(kernel[1], kernel[2], padding),
     is_init |-> FALSE,
     params |-> [w |-> None, b |-> None],
     grads |-> [w |-> None, b |-> None],
     col |-> None, W |-> None, X_shape |-> None]

\* Conv2D._init_parameters
ConvInitParameters(c) ==
    [c EXCEPT !.params = [w |-> Initialize(c.initializers.w, c.kernel_shape),
                          b |-> Initialize(c.initializers.b, <<c.kernel_shape[4]>>)],
              !.is_init = TRUE]

\* the lazy initialization of Conv2D.forward
ConvLazyInit(c) == IF ~c.is_init THEN ConvInitParameters(c) ELSE c

\* Conv2D.forward on one sample: [layer, status, value]
ConvForwardCall(c0, inputs) ==
    LET c == ConvLazyInit(c0)
        k_h == c.kernel_shape[1]
        k_w == c.kernel_shape[2]
        in_c == c.kernel_shape[3]
        out_c == c.kernel_shape[4]
        s_h == c.stride_shape[1]
        s_w == c.stride_shape[2]
        X == ZeroPad(inputs, c.pad[1], c.pad[2], c.pad[3], c.pad[4])
        out_h == (X.shape[1] - k_h) \div s_h + 1
        out_w == (X.shape[2] - k_w) \div s_w + 1
    IN IF in_c # inputs.shape[3]
       THEN [layer |-> c, status |-> "AssertionError", value |-> None]
       ELSE IF out_h < 0 \/ out_w < 0
       \* np.empty of a negative size, or a reshape to negative extents
       THEN [layer |-> c, status |-> "ValueError", value |-> None]
       ELSE LET col == Im2col(X, k_h, k_w, s_h, s_w)
                W == Reshape(c.params.w, <<k_h * k_w * in_c, out_c>>)
                Z == MatMul(col, W)
                Zb == Tensor(<<out_h, out_w, out_c>>,
                             [i \in 0..(out_h * out_w * out_c - 1) |->
                                Z.data[i] + c.params.b.data[i % out_c]])
            IN [layer |-> [c EXCEPT !.col = col, !.W = W, !.X_shape = X.shape],
                status |-> "ok", value |-> Zb]

\* (mutant of AccumulatePatch) d_in[r:r+k_h, c:c+k_w, :] = patch
AssignPatch(d_in, d_X, i, j, r, c, k_h, k_w) ==
    LET in_c == d_in.shape[3]
        w == d_in.shape[2]
    IN [d_in EXCEPT !.data =
          [n \in DOMAIN d_in.data |->
             LET y == n \div (w * in_c)
                 x == (n \div in_c) % w
                 ch == n % in_c
             IN IF y >= r /\ y < r + k_h /\ x >= c /\ x < c + k_w
                THEN At3(d_X, i, j, ((y - r) * k_w + (x - c)) * in_c + ch)
                ELSE d_in.data[n]]]

\* d_in[r:r+k_h, c:c+k_w, :] += patch, patch = d_X[i, j, :].reshape(k_h, k_w, in_c)
AccumulatePatch(d_in, d_X, i, j, r, c, k_h, k_w) ==
    LET in_c == d_in.shape[3]
        w == d_in.shape[2]
    IN [d_in EXCEPT !.data =
          [n \in DOMAIN d_in.data |->
             LET y == n \div (w * in_c)
                 x == (n \div in_c) % w
                 ch == n % in_c
             IN IF y >= r /\ y < r + k_h /\ x >= c /\ x < c + k_w
                THEN d_in.data[n]
                     + At3(d_X, i, j, ((y - r) * k_w + (x - c)) * in_c + ch)
                ELSE d_in.data[n]]]

\* the two loops of Conv2D.backward over the zero buffer; n counts the
\* positions done, in the loops' order
RECURSIVE Col2Im(_, _, _, _, _, _, _, _)
Col2Im(d_X, X_shape, k_h, k_w, s_h, s_w, n_j, n) ==
    IF n = 0 THEN Zeros(X_shape)
    ELSE LET i == (n - 1) \div n_j
             j == (n - 1) % n_j
         IN AccumulatePatch(Col2Im(d_X, X_shape, k_h, k_w, s_h, s_w, n_j, n - 1),
                            d_X, i, j, i * s_h, j * s_w, k_h, k_w)

\* d_in[pad[0]:in_h-pad[1], pad[2]:in_w-pad[3], :]
CropPadding(d_in, pad) ==
    Slice3(d_in, pad[1], d_in.shape[1] - pad[2], pad[3], d_in.shape[2] - pad[4])

\* Conv2D.backward on one sample: [layer, status, value]
ConvBackwardCall(c, grad) ==
    IF c.X_shape = None
    THEN [layer |-> c, status |-> "AttributeError", value |-> None]
    ELSE
    LET k_h == c.kernel_shape[1]
        k_w == c.kernel_shape[2]
        out_c == c.kernel_shape[4]
        s_h == c.stride_shape[1]
        s_w == c.stride_shape[2]
        in_h == c.X_shape[1]
        in_w == c.X_shape[2]
        flat_grad == Reshape(grad, <<Prod(grad.shape) \div out_c, out_c>>)
        d_W == MatMul(Transpose(c.col), flat_grad)
        d_b == Tensor(<<out_c>>,
                      [oc \in 0..(out_c - 1) |->
                         SumFn([r \in 0..(flat_grad.shape[1] - 1) |-> At2(flat_grad, r, oc)],
                               flat_grad.shape[1])])
        d_X == Reshape(MatMul(flat_grad, Transpose(c.W)),
                       <<grad.shape[1], grad.shape[2], c.W.shape[1]>>)
        n_i == RangeLen(in_h - k_h + 1, s_h)
        n_j == RangeLen(in_w - k_w + 1, s_w)
        d_in == Col2Im(d_X, c.X_shape, k_h, k_w, s_h, s_w, n_j, n_i * n_j)
    IN [layer |-> [c EXCEPT !.grads = [w |-> Reshape(d_W, c.kernel_shape), b |-> d_b]],
        status |-> "ok",
        value |-> CropPadding(d_in, c.pad)]

ConvIdle == [constructed |-> FALSE]
NoCall == [op |-> "none"]

Extents == 1..MaxK
InSizes == 1..MaxIn
Channels == 1..MaxChan
WInits == {"index", "ones"}

\* the gradients handed to backward: shaped like the forward output
GradsFor(shape) == {OnesTensor(shape), IndexTensor(shape)}

ConvConstruct ==
    /\ ~conv.constructed
    /\ \E k_h \in Extents, k_w \in Extents, in_c \in Channels, out_c \in Channels,
          stride \in Strides, padding \in ConvModes, w_init \in WInits :
          conv' = ConvNew(<<k_h, k_w, in_c, out_c>>, stride, padding, w_init, "zeros")
    /\ convRes' = [op |-> "init"]
    /\ UNCHANGED <<poolVars, dropVars, netVars, paramVars>>

ConvForward ==
    /\ conv.constructed
    /\ convRes.op = "init"
    /\ \E h \in InSizes, w \in InSizes, ch \in Channels :
          LET inputs == IndexTensor(<<h, w, ch>>)
              r == ConvForwardCall(conv, inputs)
          IN /\ conv' = r.layer
             /\ convRes' = [op |-> "forward", inputs |-> inputs,
                            status |-> r.status, value |-> r.value]
    /\ UNCHANGED <<poolVars, dropVars, netVars, paramVars>>

ConvBackward ==
    /\ conv.constructed
    /\ convRes.op = "forward" /\ convRes.status = "ok"
    /\ \E grad \in GradsFor(convRes.value.shape) :
          LET r == ConvBackwardCall(conv, grad)
          IN /\ conv' = r.layer
             /\ convRes' = [op |-> "backward", inputs |-> convRes.inputs, grad |-> grad,
                            status |-> r.status, value |-> r.value]
    /\ UNCHANGED <<poolVars, dropVars, netVars, paramVars>>

ConvNext == ConvConstruct \/ ConvForward \/ ConvBackward

PoolIdle == [constructed |-> FALSE]
DropIdle == [constructed |-> FALSE]
NetIdle == [layers |-> <<>>]

\* the layers no call is made on
IdleConv == conv = ConvIdle /\ convRes = NoCall
IdlePool == pool = PoolIdle /\ poolRes = NoCall
IdleDrop == drop = DropIdle /\ dropRes = NoCall /\ dropFwd = NoCall

IdleNet == net = NetIdle /\ netRes = NoCall /\ netOut = None

\* the names a caller holds StructuredParams by
Slots == {"p", "q"}

IdleParam ==
    /\ heap = <<>> /\ pnet = <<>> /\ sp = [s \in Slots |-> None]
    /\ spRes = NoCall /\ spOps = 0

ConvInit == IdleConv /\ IdlePool /\ IdleDrop /\ IdleNet /\ IdleParam

SpecConv == ConvInit /\ [][ConvNext]_vars

(***************************************************************************)
(* MaxPool2D (core/layers.py).                                             *)
(***************************************************************************)
PoolModes == {"VALID", "SAME"}

\* MaxPool2D._get_padding_1d
PoolGetPadding1d(input_size, pool_size, stride, mode) ==
    LET r == input_size % stride
        n_pad == IF mode = "SAME"
                 THEN IF r = 0 THEN Max2(pool_size - stride, 0)
                      ELSE Max2(pool_size, stride) - r
                 ELSE 0
        half == n_pad \div 2
    IN IF n_pad % 2 = 0 THEN <<half, half>> ELSE <<half, half + 1>>

\* MaxPool2D._get_padding
PoolGetPadding(input_size, pool_size, stride, mode) ==
    PoolGetPadding1d(input_size[1], pool_size[1], stride[1], mode)
    \o PoolGetPadding1d(input_size[2], pool_size[2], stride[2], mode)

\* MaxPool2D.__init__
PoolNew(pool_size, stride, padding) ==
    [constructed |-> TRUE, pool_size |-> pool_size, stride |-> stride,
     padding_mode |-> padding, cache |-> None]

\* np.max(pool, axis=1) for channel ch of a window reshaped to (-1, in_c)
WindowMax(win, ch) ==
    LET n == win.shape[1] * win.shape[2]
        c == win.shape[3]
    IN CHOOSE v \in {win.data[q * c + ch] : q \in 0..(n - 1)} :
          \A q \in 0..(n - 1) : win.data[q * c + ch] <= v

\* np.argmax(pool, axis=1): the first flat position holding the maximum
WindowArgMax(win, ch) ==
    LET n == win.shape[1] * win.shape[2]
        c == win.shape[3]
    IN CHOOSE q \in 0..(n - 1) :
          /\ win.data[q * c + ch] = WindowMax(win, ch)
          /\ \A q2 \in 0..(q - 1) : win.data[q2 * c + ch] # WindowMax(win, ch)

\* the slice padded[col:col+pool_h, row:row+pool_w, :] of the n-th window, in
\* the order of the two loops of MaxPool2D.forward
PoolWindow(padded, pool_h, pool_w, s_h, s_w, n) ==
    LET n_row == RangeLen(padded.shape[2], s_w)
        col == (n \div n_row) * s_h
        row == (n % n_row) * s_w
    IN Slice3(padded, col, col + pool_h, row, row + pool_w)

\* MaxPool2D.forward on one sample: [layer, status, value, windows]; windows
\* lists the slices the loops took: [col, row, h, w]
PoolForwardCall(l, inputs) ==
    LET in_h == inputs.shape[1]
        in_w == inputs.shape[2]
        in_c == inputs.shape[3]
        pad == PoolGetPadding(<<in_h, in_w>>, l.pool_size, l.stride, l.padding_mode)
        padded == ZeroPad(inputs, pad[1], pad[2], pad[3], pad[4])
        pad_h == padded.shape[1]
        pad_w == padded.shape[2]
        s_h == l.stride[1]
        s_w == l.stride[2]
        pool_h == l.pool_size[1]
        pool_w == l.pool_size[2]
        out_h == pad_h \div s_h
        out_w == pad_w \div s_w
        n_col == RangeLen(pad_h, s_h)
        n_row == RangeLen(pad_w, s_w)
        win(n) == PoolWindow(padded, pool_h, pool_w, s_h, s_w, n)
        windows == [n \in 1..(n_col * n_row) |->
                      [col |-> ((n - 1) \div n_row) * s_h,
                       row |-> ((n - 1) % n_row) * s_w,
                       h |-> win(n - 1).shape[1],
                       w |-> win(n - 1).shape[2]]]
    IN IF n_col * n_row * in_c # out_h * out_w * in_c
       \* the reshape of the n_col * n_row patches to (out_h, out_w, in_c)
       THEN [layer |-> l, status |-> "ValueError", value |-> None, windows |-> windows]
       ELSE LET outputs == Tensor(<<out_h, out_w, in_c>>,
                              [i \in 0..(out_h * out_w * in_c - 1) |->
                                 WindowMax(win(i \div in_c), i % in_c)])
                max_pos == Tensor(<<out_h, out_w, in_c>>,
                              [i \in 0..(out_h * out_w * in_c - 1) |->
                                 WindowArgMax(win(i \div in_c), i % in_c)])
            IN [layer |-> [l EXCEPT !.cache =
                              [in_img_size |-> <<in_h, in_w, in_c>>,
                               stride |-> <<s_h, s_w>>, pad |-> <<pad_h, pad_w>>,
                               pool |-> <<pool_h, pool_w>>, max_pos |-> max_pos,
                               out_img_size |-> <<out_h, out_w, in_c>>]],
                status |-> "ok", value |-> outputs, windows |-> windows]

\* whether d_in[col:col+pool_h, row:row+pool_w, :] = region can be done: the
\* (pool_h, pool_w, in_c) region must broadcast to the slice
RegionFits(d_in, col, row, pool_h, pool_w) ==
    LET t == Slice3(d_in, col, col + pool_h, row, row + pool_w)
    IN /\ (t.shape[1] = pool_h \/ pool_h = 1)
       /\ (t.shape[2] = pool_w \/ pool_w = 1)

\* d_in[col:col+pool_h, row:row+pool_w, :] = region, where region routes
\* grad[i, j, :] to the recorded max position and is zero elsewhere
AssignRegion(d_in, max_pos, grad, i, j, col, row, pool_h, pool_w) ==
    LET in_c == d_in.shape[3]
        w == d_in.shape[2]
    IN [d_in EXCEPT !.data =
          [n \in DOMAIN d_in.data |->
             LET y == n \div (w * in_c)
                 x == (n \div in_c) % w
                 ch == n % in_c
             IN IF y >= col /\ y < col + pool_h /\ x >= row /\ x < row + pool_w
                THEN IF (y - col) * pool_w + (x - row) = At3(max_pos, i, j, ch)
                     THEN At3(grad, i, j, ch) ELSE 0
                ELSE d_in.data[n]]]

\* the two loops of MaxPool2D.backward over the zero buffer, n windows done
RECURSIVE PoolScatter(_, _, _, _)
PoolScatter(cache, grad, n_row, n) ==
    IF n = 0 THEN Zeros(<<cache.pad[1], cache.pad[2], cache.in_img_size[3]>>)
    ELSE LET i == (n - 1) \div n_row
             j == (n - 1) % n_row
         IN AssignRegion(PoolScatter(cache, grad, n_row, n - 1), cache.max_pos, grad,
                         i, j, i * cache.stride[1], j * cache.stride[2],
                         cache.pool[1], cache.pool[2])

\* the gradient MaxPool2D.backward returns from the filled buffer d_in
PoolReturn(d_in, cache) == d_in

\* MaxPool2D.backward on one sample: [layer, status, value]
PoolBackwardCall(l, grad) ==
    IF l.cache = None
    THEN [layer |-> l, status |-> "TypeError", value |-> None]
    ELSE
    LET cache == l.cache
        n_col == RangeLen(cache.pad[1], cache.stride[1])
        n_row == RangeLen(cache.pad[2], cache.stride[2])
        zero == Zeros(<<cache.pad[1], cache.pad[2], cache.in_img_size[3]>>)
    IN IF \E n \in 0..(n_col * n_row - 1) :
             ~RegionFits(zero, (n \div n_row) * cache.stride[1],
                         (n % n_row) * cache.stride[2], cache.pool[1], cache.pool[2])
       THEN [layer |-> l, status |-> "ValueError", value |-> None]
       ELSE [layer |-> l, status |-> "ok",
             value |-> PoolReturn(PoolScatter(cache, grad, n_row, n_col * n_row), cache)]

NegIndexTensor(shape) == Tensor(shape, [i \in 0..(Prod(shape) - 1) |-> 0 - (i + 1)])

\* the images handed to MaxPool2D.forward
PoolImages(shape) == {IndexTensor(shape), OnesTensor(shape), NegIndexTensor(shape)}

PoolConstruct ==
    /\ ~pool.constructed
    /\ \E pool_h \in Extents, pool_w \in Extents, stride \in Strides, padding \in PoolModes :
          pool' = PoolNew(<<pool_h, pool_w>>, stride, padding)
    /\ poolRes' = [op |-> "init"]
    /\ UNCHANGED <<convVars, dropVars, netVars, paramVars>>

PoolForward ==
    /\ pool.constructed
    /\ poolRes.op = "init"
    /\ \E h \in InSizes, w \in InSizes, ch \in Channels :
       \E inputs \in PoolImages(<<h, w, ch>>) :
          LET r == PoolForwardCall(pool, inputs)
          IN /\ pool' = r.layer
             /\ poolRes' = [op |-> "forward", inputs |-> inputs, status |-> r.status,
                            value |-> r.value, windows |-> r.windows]
    /\ UNCHANGED <<convVars, dropVars, netVars, paramVars>>

PoolBackward ==
    /\ pool.constructed
    /\ poolRes.op = "forward" /\ poolRes.status = "ok"
    /\ \E grad \in GradsFor(poolRes.value.shape) :
          LET r == PoolBackwardCall(pool, grad)
          IN /\ pool' = r.layer
             /\ poolRes' = [op |-> "backward", inputs |-> poolRes.inputs, grad |-> grad,
                            status |-> r.status, value |-> r.value]
    /\ UNCHANGED <<convVars, dropVars, netVars, paramVars>>

PoolNext == PoolConstruct \/ PoolForward \/ PoolBackward

SpecPool == ConvInit /\ [][PoolNext]_vars

(***************************************************************************)
(* Dropout (core/layers.py) on tensors of one axis.                        *)
(***************************************************************************)
\* 1 / keep_prob for the default keep_prob = 0.5
KeepProbInv == 2

Phases == {"TRAIN", "TEST"}

\* Layer.set_phase
SetPhase(l, phase) == [l EXCEPT !.is_training = IF phase = "TRAIN" THEN TRUE ELSE FALSE]

\* Layer.__init__ then Dropout.__init__
DropoutNew == [constructed |-> TRUE, is_training |-> TRUE, _multiplier |-> None]

\* multiplier / self._keep_prob
ScaleMask(mask) == Tensor(mask.shape, [i \in DOMAIN mask.data |-> mask.data[i] * KeepProbInv])

\* a * b for tensors of one axis, broadcast as numpy does; None when the
\* shapes do not broadcast
BroadcastMul(a, b) ==
    LET n == a.shape[1]
        m == b.shape[1]
    IN IF n = m THEN Tensor(<<n>>, [i \in 0..(n - 1) |-> a.data[i] * b.data[i]])
       ELSE IF n = 1 THEN Tensor(<<m>>, [i \in 0..(m - 1) |-> a.data[0] * b.data[i]])
       ELSE IF m = 1 THEN Tensor(<<n>>, [i \in 0..(n - 1) |-> a.data[i] * b.data[0]])
       ELSE None

\* Dropout.forward; mask is the np.random.binomial draw (used in training mode)
DropoutForwardCall(l, inputs, mask) ==
    IF l.is_training
    THEN [layer |-> [l EXCEPT !._multiplier = ScaleMask(mask)],
          status |-> "ok", value |-> BroadcastMul(inputs, ScaleMask(mask))]
    ELSE [layer |-> l, status |-> "ok", value |-> inputs]

\* Dropout.backward
DropoutBackwardCall(l, grad) ==
    IF l.is_training # TRUE
    THEN [layer |-> l, status |-> "AssertionError", value |-> None]
    ELSE IF l._multiplier = None
    THEN [layer |-> l, status |-> "TypeError", value |-> None]
    ELSE IF BroadcastMul(grad, l._multiplier) = None
    THEN [layer |-> l, status |-> "ValueError", value |-> None]
    ELSE [layer |-> l, status |-> "ok", value |-> BroadcastMul(grad, l._multiplier)]

Lens == 1..MaxLen
\* the draws of np.random.binomial(1, keep_prob, size=shape)
Masks(shape) == {Tensor(shape, d) : d \in [0..(Prod(shape) - 1) -> {0, 1}]}

DropConstruct ==
    /\ ~drop.constructed
    /\ drop' = DropoutNew
    /\ dropRes' = [op |-> "init"]
    /\ UNCHANGED <<dropFwd, convVars, poolVars, netVars, paramVars>>

DropSetPhase ==
    /\ drop.constructed
    /\ \E phase \in Phases :
          /\ drop' = SetPhase(drop, phase)
          /\ dropRes' = [op |-> "set_phase", phase |-> phase]
    /\ UNCHANGED <<dropFwd, convVars, poolVars, netVars, paramVars>>

\* dropFwd keeps the most recent forward call: the mode it ran in and the
\* scaled mask it drew (None when it drew none)
DropForward ==
    /\ drop.constructed
    /\ \E n \in Lens : \E mask \in Masks(<<n>>) :
          LET inputs == IndexTensor(<<n>>)
              r == DropoutForwardCall(drop, inputs, mask)
          IN /\ drop' = r.layer
             /\ dropRes' = [op |-> "forward", inputs |-> inputs,
                            status |-> r.status, value |-> r.value]
             /\ dropFwd' = [op |-> "forward", training |-> drop.is_training,
                            drawn |-> IF drop.is_training THEN ScaleMask(mask) ELSE None]
    /\ UNCHANGED <<convVars, poolVars, netVars, paramVars>>

DropBackward ==
    /\ drop.constructed
    /\ \E n \in Lens : \E grad \in GradsFor(<<n>>) :
          LET r == DropoutBackwardCall(drop, grad)
          IN /\ drop' = r.layer
             /\ dropRes' = [op |-> "backward", grad |-> grad,
                            status |-> r.status, value |-> r.value]
    /\ UNCHANGED <<dropFwd, convVars, poolVars, netVars, paramVars>>

DropNext == DropConstruct \/ DropSetPhase \/ DropForward \/ DropBackward

SpecDropout == ConvInit /\ [][DropNext]_vars

(***************************************************************************)
(* Net (core/net.py) over the layers of core/layers.py.  Here a tensor is  *)
(* its numpy shape (batch axis first): a layer call is its effect on the   *)
(* layer's fields and the shape, or the exception, it ends with.  A dict   *)
(* is the sequence of its [k, v] items in insertion order.                 *)
(***************************************************************************)
Reverse(s) == [i \in 1..Len(s) |-> s[Len(s) + 1 - i]]
Last(s) == s[Len(s)]

\* d[k] = v
DictSet(d, k, v) ==
    IF \E i \in 1..Len(d) : d[i].k = k
    THEN [i \in 1..Len(d) |-> IF d[i].k = k THEN [k |-> k, v |-> v] ELSE d[i]]
    ELSE Append(d, [k |-> k, v |-> v])

\* d[k]
DictGet(d, k) == LET i == CHOOSE i \in 1..Len(d) : d[i].k = k IN d[i].v

\* list(d.keys()), list(d.values())
DictKeys(d) == [i \in 1..Len(d) |-> d[i].k]
DictValues(d) == [i \in 1..Len(d) |-> d[i].v]

PadLeft(s, r) == [i \in 1..r |-> IF i <= r - Len(s) THEN 1 ELSE s[i - (r - Len(s))]]

\* the shape of a * b (numpy broadcasting), None when the shapes do not broadcast
BroadcastShape(a, b) ==
    LET r == Max2(Len(a), Len(b))
        pa == PadLeft(a, r)
        pb == PadLeft(b, r)
    IN IF \A i \in 1..r : pa[i] = pb[i] \/ pa[i] = 1 \/ pb[i] = 1
       THEN [i \in 1..r |-> IF pa[i] = 1 THEN pb[i] ELSE pa[i]]
       ELSE None

\* the shape of a @ b for operands of two or more axes, None when it raises
MatmulShape(a, b) ==
    LET batch == BroadcastShape(SubSeq(a, 1, Len(a) - 2), SubSeq(b, 1, Len(b) - 2))
    IN IF Last(a) # b[Len(b) - 1] \/ batch = None THEN None
       ELSE batch \o <<a[Len(a) - 1], Last(b)>>

Ret(l, status, value) == [layer |-> l, status |-> status, value |-> value]

\* ---- Dense ----
\* Dense._init_parameters; inits counts the calls of each initializer
DenseInitParameters(l, input_size) ==
    [l EXCEPT !.shapes = [w |-> <<input_size, @.w[2]>>, b |-> @.b],
              !.params = DictSet(DictSet(@, "w", <<input_size, l.shapes.w[2]>>),
                                 "b", l.shapes.b),
              !.inits = [w |-> @.w + 1, b |-> @.b + 1],
              !.is_init = TRUE]

\* Dense.__init__; num_in = 0 stands for num_in=None
DenseNew(num_out, num_in) ==
    LET l == [kind |-> "Dense", is_training |-> TRUE,
              params |-> <<[k |-> "w", v |-> None], [k |-> "b", v |-> None]>>,
              grads |-> <<>>,
              shapes |-> [w |-> <<num_in, num_out>>, b |-> <<1, num_out>>],
              is_init |-> FALSE, inits |-> [w |-> 0, b |-> 0],
              num_in |-> num_in, forwards |-> FALSE, inputs |-> None]
    IN IF num_in # 0 THEN DenseInitParameters(l, num_in) ELSE l

\* (mutant of DenseLazyInit) initializes on every forward
DenseAlwaysInit(l, inputs) == DenseInitParameters(l, inputs[2])

\* the lazy initialization of Dense.forward
DenseLazyInit(l, inputs) == IF ~l.is_init THEN DenseInitParameters(l, inputs[2]) ELSE l

\* Dense.forward; forwards records that forward was called
DenseForwardShape(l0, inputs) ==
    LET l == [DenseLazyInit(l0, inputs) EXCEPT !.inputs = inputs, !.forwards = TRUE]
        xw == MatmulShape(inputs, DictGet(l.params, "w"))
    IN IF xw = None THEN Ret(l, "ValueError", None)
       ELSE IF BroadcastShape(xw, DictGet(l.params, "b")) = None
       THEN Ret(l, "ValueError", None)
       ELSE Ret(l, "ok", BroadcastShape(xw, DictGet(l.params, "b")))

\* the two assignments to self.grads of Dense.backward
DenseGrads(grads, d_w, d_b) == DictSet(DictSet(grads, "w", d_w), "b", d_b)

\* Dense.backward
DenseBackwardShape(l, grad) ==
    IF l.inputs = None THEN Ret(l, "AttributeError", None)
    ELSE LET d_w == MatmulShape(Reverse(l.inputs), grad)
             l2 == [l EXCEPT !.grads = DenseGrads(@, d_w, Tail(grad))]
             d_in == MatmulShape(grad, Reverse(DictGet(l.params, "w")))
         IN IF d_w = None THEN Ret(l, "ValueError", None)
            ELSE IF d_in = None THEN Ret(l2, "ValueError", None)
            ELSE Ret(l2, "ok", d_in)

\* ---- Conv2D ----
\* Conv2D.__init__
ConvShapeNew(kernel, stride, padding) ==
    [kind |-> "Conv2D", is_training |-> TRUE, params |-> <<>>, grads |-> <<>>,
     kernel_shape |-> kernel, stride_shape |-> stride,
     pad |-> ConvGetPadding(kernel[1], kernel[2], padding),
     is_init |-> FALSE, inits |-> [w |-> 0, b |-> 0],
     num_in |-> 0, forwards |-> FALSE, X_shape |-> None]

\* Conv2D._init_parameters; inits counts the calls of each initializer
ConvShapeInitParameters(l) ==
    [l EXCEPT !.params = DictSet(DictSet(@, "w", l.kernel_shape),
                                 "b", <<l.kernel_shape[4]>>),
              !.inits = [w |-> @.w + 1, b |-> @.b + 1],
              !.is_init = TRUE]

\* the lazy initialization of Conv2D.forward
ConvShapeLazyInit(l) == IF ~l.is_init THEN ConvShapeInitParameters(l) ELSE l

\* Conv2D.forward
ConvForwardShape(l0, inputs) ==
    LET l == [ConvShapeLazyInit(l0) EXCEPT !.forwards = TRUE]
        k == l.kernel_shape
    IN IF Len(inputs) < 4 THEN Ret(l, "IndexError", None)
       ELSE IF k[3] # inputs[4] THEN Ret(l, "AssertionError", None)
       ELSE LET X == <<inputs[1], inputs[2] + l.pad[1] + l.pad[2],
                       inputs[3] + l.pad[3] + l.pad[4], inputs[4]>>
                out_h == (X[2] - k[1]) \div l.stride_shape[1] + 1
                out_w == (X[3] - k[2]) \div l.stride_shape[2] + 1
            IN IF out_h < 0 \/ out_w < 0 THEN Ret(l, "ValueError", None)
               ELSE Ret([l EXCEPT !.X_shape = X], "ok", <<X[1], out_h, out_w, k[4]>>)

\* Conv2D.backward
ConvBackwardShape(l, grad) ==
    IF l.X_shape = None THEN Ret(l, "AttributeError", None)
    ELSE
    LET k == l.kernel_shape
        X == l.X_shape
        out_h == (X[2] - k[1]) \div l.stride_shape[1] + 1
        out_w == (X[3] - k[2]) \div l.stride_shape[2] + 1
        n_i == RangeLen(X[2] - k[1] + 1, l.stride_shape[1])
        n_j == RangeLen(X[3] - k[2] + 1, l.stride_shape[2])
        l2 == [l EXCEPT !.grads = DictSet(DictSet(@, "w", k), "b", <<k[4]>>)]
    IN \* grad.reshape((-1, out_c)), then col.T @ flat_grad
       IF Prod(grad) % k[4] # 0 \/ Prod(grad) \div k[4] # X[1] * out_h * out_w
       THEN Ret(l, "ValueError", None)
       \* grad @ self.W.T
       ELSE IF Last(grad) # k[4] THEN Ret(l2, "ValueError", None)
       \* d_X[:, i, j, :] for each i < n_i, j < n_j
       ELSE IF n_i * n_j > 0 /\ (Len(grad) # 4 \/ grad[2] < n_i \/ grad[3] < n_j)
       THEN Ret(l2, "IndexError", None)
       \* patch.reshape((batch_sz, k_h, k_w, in_c))
       ELSE IF n_i * n_j > 0 /\ grad[1] # X[1] THEN Ret(l2, "ValueError", None)
       ELSE Ret(l2, "ok", <<X[1], X[2] - l.pad[2] - l.pad[1],
                            X[3] - l.pad[4] - l.pad[3], X[4]>>)

\* ---- MaxPool2D ----
PoolShapeNew(pool_size, stride, padding) ==
    [kind |-> "MaxPool2D", is_training |-> TRUE, params |-> <<>>, grads |-> <<>>,
     pool_size |-> pool_size, stride |-> stride, padding_mode |-> padding,
     cache |-> None]

\* MaxPool2D.forward
PoolForwardShape(l, inputs) ==
    IF Len(inputs) # 4 THEN Ret(l, "ValueError", None)
    ELSE
    LET pad == PoolGetPadding(<<inputs[2], inputs[3]>>, l.pool_size, l.stride,
                              l.padding_mode)
        pad_h == inputs[2] + pad[1] + pad[2]
        pad_w == inputs[3] + pad[3] + pad[4]
        out_h == pad_h \div l.stride[1]
        out_w == pad_w \div l.stride[2]
        n_win == RangeLen(pad_h, l.stride[1]) * RangeLen(pad_w, l.stride[2])
    IN IF n_win * inputs[1] * inputs[4] # inputs[1] * out_h * out_w * inputs[4]
       THEN Ret(l, "ValueError", None)
       ELSE Ret([l EXCEPT !.cache = [in_n |-> inputs[1],
                                     in_img_size |-> <<inputs[2], inputs[3], inputs[4]>>,
                                     stride |-> l.stride, pad |-> <<pad_h, pad_w>>,
                                     pool |-> l.pool_size]],
                "ok", <<inputs[1], out_h, out_w, inputs[4]>>)

\* MaxPool2D.backward
PoolBackwardShape(l, grad) ==
    IF l.cache = None THEN Ret(l, "TypeError", None)
    ELSE
    LET c == l.cache
        n_col == RangeLen(c.pad[1], c.stride[1])
        n_row == RangeLen(c.pad[2], c.stride[2])
        P == c.pool[1] * c.pool[2]
        mask == <<c.in_n, P, c.in_img_size[3]>>
    IN \* grad[:, i, j, :]
       IF Len(grad) # 4 \/ grad[2] < n_col \/ grad[3] < n_row
       THEN Ret(l, "IndexError", None)
       \* np.repeat(...) * mask, then region.reshape
       ELSE IF BroadcastShape(<<grad[1], P, grad[4]>>, mask) # mask
       THEN Ret(l, "ValueError", None)
       \* d_in[:, col:col+pool_h, row:row+pool_w, :] = region
       ELSE IF \/ (c.pool[1] > 1 /\ (n_col - 1) * c.stride[1] + c.pool[1] > c.pad[1])
               \/ (c.pool[2] > 1 /\ (n_row - 1) * c.stride[2] + c.pool[2] > c.pad[2])
       THEN Ret(l, "ValueError", None)
       ELSE Ret(l, "ok", <<c.in_n, c.pad[1], c.pad[2], c.in_img_size[3]>>)

\* ---- Flatten ----
FlattenNew ==
    [kind |-> "Flatten", is_training |-> TRUE, params |-> <<>>, grads |-> <<>>,
     input_shape |-> None]

\* Flatten.forward
FlattenForwardShape(l, inputs) ==
    Ret([l EXCEPT !.input_shape = inputs], "ok", <<inputs[1], Prod(Tail(inputs))>>)

\* Flatten.backward
FlattenBackwardShape(l, grad) ==
    IF l.input_shape = None THEN Ret(l, "TypeError", None)
    ELSE IF Prod(grad) # Prod(l.input_shape) THEN Ret(l, "ValueError", None)
    ELSE Ret(l, "ok", l.input_shape)

\* ---- Dropout ----
DropoutShapeNew ==
    [kind |-> "Dropout", is_training |-> TRUE, params |-> <<>>, grads |-> <<>>,
     _multiplier |-> None]

\* Dropout.forward
DropoutForwardShape(l, inputs) ==
    IF l.is_training THEN Ret([l EXCEPT !._multiplier = inputs], "ok", inputs)
    ELSE Ret(l, "ok", inputs)

\* Dropout.backward
DropoutBackwardShape(l, grad) ==
    IF l.is_training # TRUE THEN Ret(l, "AssertionError", None)
    ELSE IF l._multiplier = None THEN Ret(l, "TypeError", None)
    ELSE IF BroadcastShape(grad, l._multiplier) = None THEN Ret(l, "ValueError", None)
    ELSE Ret(l, "ok", BroadcastShape(grad, l._multiplier))

\* ---- Activation (ReLU) ----
ActivationNew ==
    [kind |-> "ReLU", is_training |-> TRUE, params |-> <<>>, grads |-> <<>>,
     inputs |-> None]

\* Activation.forward
ActivationForwardShape(l, inputs) == Ret([l EXCEPT !.inputs = inputs], "ok", inputs)

\* Activation.backward
ActivationBackwardShape(l, grad) ==
    IF l.inputs = None THEN Ret(l, "TypeError", None)
    ELSE IF BroadcastShape(l.inputs, grad) = None THEN Ret(l, "ValueError", None)
    ELSE Ret(l, "ok", BroadcastShape(l.inputs, grad))

\* layer.forward(inputs), layer.backward(grad): the method of the layer's class
LayerForward(l, inputs) ==
    CASE l.kind = "Dense" -> DenseForwardShape(l, inputs)
      [] l.kind = "Conv2D" -> ConvForwardShape(l, inputs)
      [] l.kind = "MaxPool2D" -> PoolForwardShape(l, inputs)
      [] l.kind = "Flatten" -> FlattenForwardShape(l, inputs)
      [] l.kind = "Dropout" -> DropoutForwardShape(l, inputs)
      [] OTHER -> ActivationForwardShape(l, inputs)

LayerBackward(l, grad) ==
    CASE l.kind = "Dense" -> DenseBackwardShape(l, grad)
      [] l.kind = "Conv2D" -> ConvBackwardShape(l, grad)
      [] l.kind = "MaxPool2D" -> PoolBackwardShape(l, grad)
      [] l.kind = "Flatten" -> FlattenBackwardShape(l, grad)
      [] l.kind = "Dropout" -> DropoutBackwardShape(l, grad)
      [] OTHER -> ActivationBackwardShape(l, grad)

\* ---- Net ----
\* the loop of Net.forward from layer i on: [layers, status, value]
RECURSIVE NetForwardFrom(_, _, _)
NetForwardFrom(layers, i, inputs) ==
    IF i > Len(layers) THEN [layers |-> layers, status |-> "ok", value |-> inputs]
    ELSE LET r == LayerForward(layers[i], inputs)
             ls == [layers EXCEPT ![i] = r.layer]
         IN IF r.status # "ok"
            THEN [layers |-> ls, status |-> r.status, value |-> None]
            ELSE NetForwardFrom(ls, i + 1, r.value)

\* (mutant of OrderLayerGrads) keeps the order of the backward visit
KeepVisitOrder(layer_grads) == layer_grads

\* layer_grads[::-1]
OrderLayerGrads(layer_grads) == Reverse(layer_grads)

\* the loop of Net.backward from layer i down: [layers, status, value,
\* layer_grads], layer_grads in the order of the visit
RECURSIVE NetBackwardFrom(_, _, _, _)
NetBackwardFrom(layers, i, grad, layer_grads) ==
    IF i < 1
    THEN [layers |-> layers, status |-> "ok", value |-> grad, layer_grads |-> layer_grads]
    ELSE LET r == LayerBackward(layers[i], grad)
             ls == [layers EXCEPT ![i] = r.layer]
         IN IF r.status # "ok"
            THEN [layers |-> ls, status |-> r.status, value |-> None,
                  layer_grads |-> layer_grads]
            ELSE NetBackwardFrom(ls, i - 1, r.value, Append(layer_grads, r.layer.grads))

\* Net.backward: [layers, status, value]; value is the StructuredParam
\* returned: its layer_data and its wrt_input
NetBackwardCall(layers, grad) ==
    LET r == NetBackwardFrom(layers, Len(layers), grad, <<>>)
    IN IF r.status # "ok" THEN [layers |-> r.layers, status |-> r.status, value |-> None]
       ELSE [layers |-> r.layers, status |-> "ok",
             value |-> [layer_data |-> OrderLayerGrads(r.layer_grads),
                        wrt_input |-> r.value]]

\* Net.params (getter): the layer_data of the StructuredParam returned
NetParams(layers) == [i \in 1..Len(layers) |-> layers[i].params]

\* (mutant of NetSetPhaseLayers) sets only Net._phase
NetSetPhaseNoLayers(layers, phase) == layers

\* the loop of Net.set_phase
NetSetPhaseLayers(layers, phase) == [i \in 1..Len(layers) |-> SetPhase(layers[i], phase)]

\* the layers a Net is built from
LayerChoices ==
    {DenseNew(2, 0), DenseNew(2, 2), ConvShapeNew(<<2, 2, 1, 1>>, <<1, 1>>, "SAME"),
     PoolShapeNew(<<2, 2>>, <<2, 2>>, "SAME"), FlattenNew, DropoutShapeNew, ActivationNew}

RECURSIVE SeqsOfLen(_, _)
SeqsOfLen(S, n) ==
    IF n = 0 THEN {<<>>}
    ELSE {Append(q, e) : q \in SeqsOfLen(S, n - 1), e \in S}

Architectures == UNION {SeqsOfLen(LayerChoices, n) : n \in 1..MaxLayers}

\* the shapes of the tensors handed to Net.forward (batch axis first)
InputShapes == {<<1, 2>>, <<1, 2, 2, 1>>, <<1, 3, 3, 1>>}

\* the shapes of the gradients handed to a layer's backward directly
DirectGrads == {<<1, 2>>, <<1, 3, 3, 1>>}

\* the input_shape arguments of Net.init_params
InitShapes == {<<2>>, <<3, 3, 1>>}

\* Net.__init__; last_phase[i] keeps the argument of the most recent
\* set_phase call that reached layer i ("unset" before the first)
NetNew(layers) ==
    [layers |-> layers, _phase |-> "TRAIN",
     last_phase |-> [i \in 1..Len(layers) |-> "unset"]]

NetForward ==
    \E inputs \in InputShapes :
       LET r == NetForwardFrom(net.layers, 1, inputs)
       IN /\ net' = [net EXCEPT !.layers = r.layers]
          /\ netRes' = [op |-> "forward", status |-> r.status, value |-> r.value]
          /\ netOut' = IF r.status = "ok" THEN r.value ELSE netOut
          /\ UNCHANGED <<convVars, poolVars, dropVars, paramVars>>

\* Net.init_params: forward on np.ones((1, *input_shape)), result dropped
NetInitParams ==
    \E input_shape \in InitShapes :
       LET r == NetForwardFrom(net.layers, 1, <<1>> \o input_shape)
       IN /\ net' = [net EXCEPT !.layers = r.layers]
          /\ netRes' = [op |-> "init_params", status |-> r.status, value |-> None]
          /\ UNCHANGED <<netOut, convVars, poolVars, dropVars, paramVars>>

\* Net.backward on a gradient shaped like the last output of Net.forward
NetBackward ==
    /\ netOut # None
    /\ LET r == NetBackwardCall(net.layers, netOut)
       IN /\ net' = [net EXCEPT !.layers = r.layers]
          /\ netRes' = [op |-> "backward", status |-> r.status, value |-> r.value]
    /\ UNCHANGED <<netOut, convVars, poolVars, dropVars, paramVars>>

NetSetPhase ==
    \E phase \in Phases :
       /\ net' = [net EXCEPT !.layers = NetSetPhaseLayers(@, phase), !._phase = phase,
                             !.last_phase = [i \in 1..Len(net.layers) |-> phase]]
       /\ netRes' = [op |-> "set_phase"]
       /\ UNCHANGED <<netOut, convVars, poolVars, dropVars, paramVars>>

\* layer.set_phase(phase) called on a Dropout layer of the net
LayerSetPhase ==
    \E i \in 1..Len(net.layers), phase \in Phases :
       /\ net.layers[i].kind = "Dropout"
       /\ net' = [net EXCEPT !.layers[i] = SetPhase(@, phase), !.last_phase[i] = phase]
       /\ netRes' = [op |-> "set_phase"]
       /\ UNCHANGED <<netOut, convVars, poolVars, dropVars, paramVars>>

\* layer.backward(grad) called on a Dropout layer of the net
LayerBackwardDirect ==
    \E i \in 1..Len(net.layers), grad \in DirectGrads :
       /\ net.layers[i].kind = "Dropout"
       /\ LET r == LayerBackward(net.layers[i], grad)
          IN /\ net' = [net EXCEPT !.layers[i] = r.layer]
             /\ netRes' = [op |-> "layer_backward", layer |-> i,
                           status |-> r.status, value |-> r.value]
       /\ UNCHANGED <<netOut, convVars, poolVars, dropVars, paramVars>>

NetNext ==
    \/ NetForward \/ NetInitParams \/ NetBackward
    \/ NetSetPhase \/ LayerSetPhase \/ LayerBackwardDirect

NetInit ==
    /\ IdleConv /\ IdlePool /\ IdleDrop /\ IdleParam
    /\ \E layers \in Architectures : net = NetNew(layers)
    /\ netRes = NoCall
    /\ netOut = None

SpecNet == NetInit /\ [][NetNext]_vars

(***************************************************************************)
(* Claims about Conv2D (SpecConv).                                         *)
(***************************************************************************)
\* the padding of one axis as the documentation states it, from that axis's
\* own kernel extent k: (leading, trailing)
PerAxisPad(k, mode) ==
    IF mode = "FULL" THEN <<k - 1, k - 1>>
    ELSE IF mode = "VALID" THEN <<0, 0>>
    ELSE <<(k - 1) \div 2, (k - 1) \div 2 + (IF k % 2 = 0 THEN 1 ELSE 0)>>

\* C1: for every kernel (k_h, k_w) and padding mode, the (top, bottom) pads
\* Conv2D.forward applies are the per-axis padding of k_h and the (left,
\* right) pads are the per-axis padding of k_w.
C1_PadPerAxis ==
    conv.constructed =>
        /\ <<conv.pad[1], conv.pad[2]>> = PerAxisPad(conv.kernel_shape[1], conv.padding)
        /\ <<conv.pad[3], conv.pad[4]>> = PerAxisPad(conv.kernel_shape[2], conv.padding)

\* the output positions (i, j) whose receptive field contains cell (y, x) of
\* the unpadded input
Covering(y, x) ==
    LET top == conv.pad[1]
        left == conv.pad[3]
        g == convRes.grad
    IN {ij \in (0..(g.shape[1] - 1)) \X (0..(g.shape[2] - 1)) :
          /\ ij[1] * conv.stride_shape[1] <= y + top
          /\ y + top < ij[1] * conv.stride_shape[1] + conv.kernel_shape[1]
          /\ ij[2] * conv.stride_shape[2] <= x + left
          /\ x + left < ij[2] * conv.stride_shape[2] + conv.kernel_shape[2]}

RECURSIVE SumSet(_, _)
SumSet(S, f) ==
    IF S = {} THEN 0
    ELSE LET e == CHOOSE e \in S : TRUE IN f[e] + SumSet(S \ {e}, f)

\* the gradient of cell (y, x, ch) of the unpadded input: the sum over the
\* covering output positions and the output channels of grad * kernel weight
ExpectedInputGrad(y, x, ch) ==
    LET g == convRes.grad
        k_w == conv.kernel_shape[2]
        in_c == conv.kernel_shape[3]
        out_c == conv.kernel_shape[4]
        S == Covering(y, x)
    IN SumSet(S, [ij \in S |->
          LET kr == y + conv.pad[1] - ij[1] * conv.stride_shape[1]
              kc == x + conv.pad[3] - ij[2] * conv.stride_shape[2]
          IN SumFn([oc \in 0..(out_c - 1) |->
                      At3(g, ij[1], ij[2], oc)
                      * conv.params.w.data[((kr * k_w + kc) * in_c + ch) * out_c + oc]],
                   out_c)])

ConvBackwardDone == convRes.op = "backward" /\ convRes.status = "ok"

\* C3: Conv2D.backward after forward returns a gradient shaped like the
\* original unpadded input, each cell holding the sum, over every output
\* position whose receptive field contains it, of that position's gradient
\* patch entry; the padding cells are cropped away.
C3_ConvInputGrad ==
    ConvBackwardDone =>
        /\ convRes.value.shape = convRes.inputs.shape
        /\ \A y \in 0..(convRes.inputs.shape[1] - 1), x \in 0..(convRes.inputs.shape[2] - 1),
              ch \in 0..(convRes.inputs.shape[3] - 1) :
              At3(convRes.value, y, x, ch) = ExpectedInputGrad(y, x, ch)

\* a backward whose receptive fields overlap on a cell, with padding cropped
C3_Witness ==
    /\ ConvBackwardDone
    /\ conv.pad[1] > 0 /\ conv.pad[4] > 0
    /\ \E y \in 0..(convRes.inputs.shape[1] - 1), x \in 0..(convRes.inputs.shape[2] - 1) :
          /\ Cardinality(Covering(y, x)) >= 2
          /\ At3(convRes.value, y, x, 0) > 1

(***************************************************************************)
(* Claims about MaxPool2D (SpecPool).                                      *)
(***************************************************************************)
\* C2: in either padding mode, a MaxPool2D.backward that returns after a
\* successful forward returns a gradient shaped like the original
\* (unpadded) input.
C2_PoolGradShape ==
    (poolRes.op = "backward" /\ poolRes.status = "ok") =>
        poolRes.value.shape = poolRes.inputs.shape

\* C10: for every accepted configuration and input, forward takes its maxima
\* over exactly out_h x out_w windows, each a full pool_h x pool_w block
\* inside the padded input, and yields one output cell per window.
C10_PoolWindowsFull ==
    poolRes.op = "forward" =>
        LET pad == PoolGetPadding(<<poolRes.inputs.shape[1], poolRes.inputs.shape[2]>>,
                                  pool.pool_size, pool.stride, pool.padding_mode)
            pad_h == poolRes.inputs.shape[1] + pad[1] + pad[2]
            pad_w == poolRes.inputs.shape[2] + pad[3] + pad[4]
            out_h == pad_h \div pool.stride[1]
            out_w == pad_w \div pool.stride[2]
        IN /\ Len(poolRes.windows) = out_h * out_w
           /\ \A n \in 1..Len(poolRes.windows) :
                 /\ poolRes.windows[n].h = pool.pool_size[1]
                 /\ poolRes.windows[n].w = pool.pool_size[2]
                 /\ poolRes.windows[n].col + pool.pool_size[1] <= pad_h
                 /\ poolRes.windows[n].row + pool.pool_size[2] <= pad_w
           /\ poolRes.status = "ok"
           /\ poolRes.value.shape = <<out_h, out_w, poolRes.inputs.shape[3]>>

\* the pooling windows overlap on an axis
PoolOverlap ==
    pool.stride[1] < pool.pool_size[1] \/ pool.stride[2] < pool.pool_size[2]

\* the windows (numbered in row-major order from 0) whose pool_h x pool_w
\* block covers cell (y, x) of the padded buffer
CoveringWindows(y, x) ==
    LET n_col == RangeLen(pool.cache.pad[1], pool.cache.stride[1])
        n_row == RangeLen(pool.cache.pad[2], pool.cache.stride[2])
    IN {n \in 0..(n_col * n_row - 1) :
          LET col == (n \div n_row) * pool.cache.stride[1]
              row == (n % n_row) * pool.cache.stride[2]
          IN /\ col <= y /\ y < col + pool.cache.pool[1]
             /\ row <= x /\ x < row + pool.cache.pool[2]}

\* the gradient in which every cell holds what the last window covering it
\* writes: that window's incoming gradient at its max position, zero elsewhere
LastWriterGrad ==
    LET c == pool.cache
        n_row == RangeLen(c.pad[2], c.stride[2])
        shape == <<c.pad[1], c.pad[2], c.in_img_size[3]>>
    IN Tensor(shape,
          [k \in 0..(Prod(shape) - 1) |->
             LET y == k \div (shape[2] * shape[3])
                 x == (k \div shape[3]) % shape[2]
                 ch == k % shape[3]
                 cov == CoveringWindows(y, x)
             IN IF cov = {} THEN 0
                ELSE LET n == CHOOSE m \in cov : \A m2 \in cov : m2 <= m
                         i == n \div n_row
                         j == n % n_row
                         pos == (y - i * c.stride[1]) * c.pool[2] + (x - j * c.stride[2])
                     IN IF pos = At3(c.max_pos, i, j, ch)
                        THEN At3(poolRes.grad, i, j, ch) ELSE 0])

\* C11: when stride < pool size on an axis, a MaxPool2D.backward called after
\* a successful forward completes, and each cell of the gradient it returns
\* holds only what the last window (row-major) covering it wrote, not the sum
\* over the covering windows.
C11_OverlapLastWriterWins ==
    (poolRes.op = "backward" /\ PoolOverlap) =>
        /\ poolRes.status = "ok"
        /\ poolRes.value = LastWriterGrad

\* with windows that do not overlap, a backward that completes returns the
\* last-writer gradient
PoolDisjointLastWriter ==
    (poolRes.op = "backward" /\ poolRes.status = "ok") =>
        poolRes.value = LastWriterGrad

\* with overlapping windows every backward after a successful forward raises
PoolOverlapRaises ==
    (poolRes.op = "backward" /\ PoolOverlap) => poolRes.status = "ValueError"

(***************************************************************************)
(* Claims about Dropout (SpecDropout).                                     *)
(***************************************************************************)
\* C4: in every sequence of set_phase, forward and backward calls, a
\* backward that succeeds returns the incoming gradient times the scaled
\* mask drawn by the most recent forward call (so not a mask drawn by an
\* earlier forward, when the most recent one ran in inference mode).
C4_BackwardUsesLatestForwardMask ==
    (dropRes.op = "backward" /\ dropRes.status = "ok") =>
        /\ dropFwd.op = "forward"
        /\ dropFwd.drawn # None
        /\ dropRes.value = BroadcastMul(dropRes.grad, dropFwd.drawn)

(***************************************************************************)
(* Claims about Net and its layers (SpecNet).                              *)
(***************************************************************************)
\* the most recent phase set on layer i is not training
NotTraining(i) == net.last_phase[i] \notin {"unset", "TRAIN"}

DropoutLayers == {i \in 1..Len(net.layers) : net.layers[i].kind = "Dropout"}

\* C5: when the most recent phase set on a Dropout layer (directly or
\* through Net.set_phase) is not training, Dropout.backward raises and
\* returns nothing, and so does Net.backward on a net holding the layer;
\* in the initial mode or after set_phase("TRAIN") the mode check passes.
C5_DropoutModeCheck ==
    /\ netRes.op = "layer_backward" =>
          IF NotTraining(netRes.layer)
          THEN netRes.status = "AssertionError" /\ netRes.value = None
          ELSE netRes.status # "AssertionError"
    /\ netRes.op = "backward" =>
          IF \E i \in DropoutLayers : NotTraining(i)
          THEN netRes.status # "ok" /\ netRes.value = None
          ELSE netRes.status # "AssertionError"

\* Net.backward failed on the mode check after Net.set_phase left training
C5_Witness ==
    /\ netRes.op = "backward" /\ netRes.status = "AssertionError"
    /\ net._phase = "TEST"
    /\ \E i \in DropoutLayers : net.last_phase[i] = "TEST"

NetBackwardDone == netRes.op = "backward" /\ netRes.status = "ok"

\* C7: after a successful Net.backward the returned gradients have one entry
\* per layer, in forward layer order, and entry i has the keys of layer i's
\* params in the same order (none for a parameter-free layer), so the two
\* flattened sequences align.
C7_GradsCongruentWithParams ==
    NetBackwardDone =>
        LET g == netRes.value.layer_data
            p == NetParams(net.layers)
        IN /\ Len(g) = Len(p)
           /\ \A i \in 1..Len(p) : DictKeys(g[i]) = DictKeys(p[i])

\* a successful backward over a layer with parameters followed by one without
C7_Witness ==
    /\ NetBackwardDone
    /\ \E i \in 1..(Len(net.layers) - 1) :
          /\ DictKeys(net.layers[i].params) = <<"w", "b">>
          /\ net.layers[i + 1].params = <<>>
          /\ DictKeys(netRes.value.layer_data[i]) = <<"w", "b">>

ParamLayers == {i \in 1..Len(net.layers) : net.layers[i].kind \in {"Dense", "Conv2D"}}

\* C8: each initializer (w, b) of a Dense or Conv2D layer is called at most
\* once: at construction for a Dense given num_in, otherwise at the first
\* forward call, and never again, whatever the later input shapes.
C8_InitAtMostOnce ==
    \A i \in ParamLayers :
       LET l == net.layers[i]
           due == IF l.num_in # 0 \/ l.forwards THEN 1 ELSE 0
       IN l.inits.w = due /\ l.inits.b = due

\* a lazily initialized Dense whose latest forward saw another input size
C8_Witness ==
    \E i \in ParamLayers :
       LET l == net.layers[i]
       IN /\ l.kind = "Dense" /\ l.num_in = 0 /\ l.inits.w = 1
          /\ l.inputs # None
          /\ l.inputs[2] # DictGet(l.params, "w")[1]

(***************************************************************************)
(* StructuredParam (core/net.py).  heap[id] is a dict object, so that two  *)
(* StructuredParams, or one and the Net's layers, can hold the same dict.  *)
(* A tensor is one number: [dtype, x], dtype "float" or "bool" (x = 0, 1). *)
(***************************************************************************)
\* StructuredParam.__init__
StructuredParam(layer_data) == [layer_data |-> layer_data]

Float(x) == [dtype |-> "float", x |-> x]
Bool(b) == [dtype |-> "bool", x |-> IF b THEN 1 ELSE 0]

\* np.array([v for d in self.layer_data for v in d.values()])
RECURSIVE SPValues(_, _)
SPValues(h, layer_data) ==
    IF layer_data = <<>> THEN <<>>
    ELSE DictValues(h[Head(layer_data)]) \o SPValues(h, Tail(layer_data))

\* the slots of the layer maps before the n-th
RECURSIVE SlotsBefore(_, _, _)
SlotsBefore(h, layer_data, n) ==
    IF n <= 1 THEN 0 ELSE Len(h[layer_data[n - 1]]) + SlotsBefore(h, layer_data, n - 1)

\* which entry of values the setter writes to slot e of the n-th layer map
SlotIndex(h, layer_data, n, e) == SlotsBefore(h, layer_data, n) + e

\* StructuredParam.values (setter): [heap, status]; values[i] raises
\* IndexError at the first slot past the end of values, after the slots
\* before it were written
SPSetValues(h, layer_data, values) ==
    LET total == SlotsBefore(h, layer_data, Len(layer_data) + 1)
        written(id) ==
            LET n == CHOOSE n \in 1..Len(layer_data) : layer_data[n] = id
            IN [e \in 1..Len(h[id]) |->
                  IF SlotIndex(h, layer_data, n, e) <= Len(values)
                  THEN [k |-> h[id][e].k, v |-> values[SlotIndex(h, layer_data, n, e)]]
                  ELSE h[id][e]]
    IN [heap |-> [id \in 1..Len(h) |->
                    IF \E n \in 1..Len(layer_data) : layer_data[n] = id
                    THEN written(id) ELSE h[id]],
        status |-> IF Len(values) < total THEN "IndexError" ELSE "ok"]

\* (mutant of DeepCopy) obj = self
NoCopy(h, layer_data) == [heap |-> h, layer_data |-> layer_data]

\* copy.deepcopy(self): [heap, layer_data], the copy's maps are new objects
DeepCopy(h, layer_data) ==
    [heap |-> h \o [n \in 1..Len(layer_data) |-> h[layer_data[n]]],
     layer_data |-> [n \in 1..Len(layer_data) |-> Len(h) + n]]

\* StructuredParam._ensure_values: an operand is a scalar, a plain sequence
\* or a StructuredParam (then its values)
Scalar(x) == [kind |-> "scalar", x |-> x]
Plain(xs) == [kind |-> "seq", xs |-> xs]
EnsureValues(h, other) ==
    IF other.kind = "sp" THEN Plain(SPValues(h, other.layer_data)) ELSE other

ArithOps == {"add", "radd", "sub", "rsub", "mul", "rmul", "truediv", "rtruediv", "pow"}
CompareOps == {"lt", "gt"}
LogicOps == {"and", "or"}
NonMutatingOps == ArithOps \cup CompareOps \cup LogicOps \cup {"neg"}
InPlaceOps == {"iadd", "isub", "imul", "itruediv", "ipow"}

Abs(x) == IF x < 0 THEN 0 - x ELSE x

\* a / b for the operands whose quotient is a whole number
Quotient(a, b) ==
    IF (a < 0) = (b < 0) THEN Abs(a) \div Abs(b) ELSE 0 - (Abs(a) \div Abs(b))

Divides(b, a) == b # 0 /\ Abs(a) % Abs(b) = 0

\* one element of the numpy result; the inputs keep a quotient exact and a
\* power natural (ElemDefined)
ElemOp(op, v, o) ==
    CASE op \in {"add", "radd", "iadd"} -> Float(v.x + o.x)
      [] op \in {"sub", "isub"} -> Float(v.x - o.x)
      [] op = "rsub" -> Float(o.x - v.x)
      [] op \in {"mul", "rmul", "imul"} -> Float(v.x * o.x)
      [] op \in {"truediv", "itruediv"} -> Float(Quotient(v.x, o.x))
      [] op = "rtruediv" -> Float(Quotient(o.x, v.x))
      [] op \in {"pow", "ipow"} -> Float(v.x ^ o.x)
      [] op = "neg" -> Float(0 - v.x)
      [] op = "lt" -> Bool(v.x < o.x)
      [] op = "gt" -> Bool(v.x > o.x)
      [] op = "and" -> Bool(o.x = 1 /\ v.x = 1)
      [] op = "or" -> Bool(o.x = 1 \/ v.x = 1)

ElemDefined(op, v, o) ==
    IF op \in LogicOps THEN TRUE
    ELSE /\ v.dtype = "float" /\ o.dtype = "float"
         /\ op \in {"truediv", "itruediv"} => Divides(o.x, v.x)
         /\ op = "rtruediv" => Divides(v.x, o.x)
         /\ op \in {"pow", "ipow"} => (o.x = 2)

\* the operand element paired with element i of n (numpy broadcasting)
OperandAt(o, i) ==
    IF o.kind = "scalar" THEN o.x ELSE IF Len(o.xs) = 1 THEN o.xs[1] ELSE o.xs[i]

\* the result of the numpy expression of an operator on self.values (vals)
\* and the ensured operand o: [status, values]
Compute(op, vals, o, inplace) ==
    LET n == Len(vals)
        m == IF o.kind = "scalar" THEN 1 ELSE Len(o.xs)
        len == IF n = m THEN n ELSE IF n = 1 /\ ~inplace THEN m ELSE n
        left(i) == IF n = 1 THEN vals[1] ELSE vals[i]
    IN IF op \in CompareOps
       \* [v < other[i] for i, v in enumerate(self.values)], or v < other
       THEN IF o.kind = "seq" /\ m < n THEN [status |-> "IndexError", values |-> <<>>]
            ELSE [status |-> "ok",
                  values |-> [i \in 1..n |->
                     ElemOp(op, vals[i], IF o.kind = "scalar" THEN o.x ELSE o.xs[i])]]
       ELSE IF ~(n = m \/ m = 1 \/ (n = 1 /\ ~inplace))
       THEN [status |-> "ValueError", values |-> <<>>]
       ELSE IF op \in LogicOps
               /\ \E i \in 1..len : left(i).dtype = "float" \/ OperandAt(o, i).dtype = "float"
       THEN [status |-> "TypeError", values |-> <<>>]
       ELSE [status |-> "ok",
             values |-> [i \in 1..len |-> ElemOp(op, left(i), OperandAt(o, i))]]

\* whether the model covers the operands (ElemDefined for every pair)
ComputeDefined(op, vals, o, inplace) ==
    LET n == Len(vals)
        m == IF o.kind = "scalar" THEN 1 ELSE Len(o.xs)
    IN \A i \in 1..n : \A j \in 1..m :
          (o.kind = "scalar" \/ j = i \/ m = 1 \/ n = 1) =>
             ElemDefined(op, vals[i], IF o.kind = "scalar" THEN o.x ELSE o.xs[j])

\* __add__, __radd__, __sub__, ..., __neg__, __lt__, __gt__, __and__, __or__:
\* [heap, status, value]; value is the object returned
NonMutatingCall(h, layer_data, op, other) ==
    LET obj == DeepCopy(h, layer_data)
        r == Compute(op, SPValues(h, layer_data), EnsureValues(h, other), FALSE)
        w == SPSetValues(obj.heap, obj.layer_data, r.values)
    IN IF r.status # "ok" THEN [heap |-> obj.heap, status |-> r.status, value |-> None]
       ELSE IF w.status # "ok" THEN [heap |-> w.heap, status |-> w.status, value |-> None]
       ELSE [heap |-> w.heap, status |-> "ok", value |-> StructuredParam(obj.layer_data)]

\* __iadd__, __isub__, __imul__, __itruediv__, __ipow__: [heap, status]
InPlaceCall(h, layer_data, op, other) ==
    LET r == Compute(op, SPValues(h, layer_data), EnsureValues(h, other), TRUE)
    IN IF r.status # "ok" THEN [heap |-> h, status |-> r.status]
       ELSE SPSetValues(h, layer_data, r.values)

\* v.clip(min_, max_)
ClipValue(v, min_, max_) ==
    Float(IF v.x < min_ THEN min_ ELSE IF v.x > max_ THEN max_ ELSE v.x)

\* StructuredParam.clip: [heap, status]
ClipCall(h, layer_data, min_, max_) ==
    LET vals == SPValues(h, layer_data)
    IN SPSetValues(h, layer_data, [i \in 1..Len(vals) |-> ClipValue(vals[i], min_, max_)])

\* Net.params (getter): the StructuredParam holds the layers' own dicts
NetParamsGet(layers) == StructuredParam(layers)

\* Net.params (setter): self.params.values = params.values
NetParamsSet(h, layers, params) ==
    SPSetValues(h, NetParamsGet(layers).layer_data, SPValues(h, params.layer_data))

\* the params dicts of a layer of each kind, after initialization
WB(w, b) == <<[k |-> "w", v |-> Float(w)], [k |-> "b", v |-> Float(b)]>>

\* the layers' params of the networks operated on: a Dense layer, a
\* parameter-free layer before one, two Dense layers
ParamNets == {<<WB(2, 1)>>, <<<<>>, WB(2, 1)>>, <<WB(2, 1), WB(3, 4)>>}

ScalarOperands == {Scalar(Float(2))}

\* the operands of an operator call: a scalar or the StructuredParam q
Operands ==
    ScalarOperands \cup {[kind |-> "sp", layer_data |-> sp[s].layer_data] :
                            s \in {t \in {"q"} : sp[t] # None}}

\* the plain sequences handed to the values setter: up to one more than the slots
RECURSIVE Count(_, _)
Count(from, n) == IF n <= 0 THEN <<>> ELSE Count(from, n - 1) \o <<Float(from + n)>>
PlainValues(total) == {Count(4, n) : n \in 0..(total + 1)}

\* the dicts a caller builds a StructuredParam of: one tensor, three tensors
OwnDicts == {<<<<[k |-> "w", v |-> Float(5)]>>>>,
             <<WB(5, 6), <<[k |-> "w", v |-> Float(7)]>>>>}

Snapshot(s) ==
    [recv |-> sp[s].layer_data, heap |-> heap]

\* p = net.params
SPGetParams ==
    /\ \E s \in {"p"} :
          /\ sp' = [sp EXCEPT ![s] = NetParamsGet(pnet)]
          /\ spRes' = [op |-> "get_params", slot |-> s]
    /\ UNCHANGED <<heap, pnet, spOps, convVars, poolVars, dropVars, netVars>>

\* q = StructuredParam(layer_data), of dicts of the caller's own
SPConstruct ==
    /\ spOps < MaxOps
    /\ \E dicts \in OwnDicts :
          /\ heap' = heap \o dicts
          /\ sp' = [sp EXCEPT !["q"] =
                      StructuredParam([n \in 1..Len(dicts) |-> Len(heap) + n])]
          /\ spRes' = [op |-> "construct"]
    /\ spOps' = spOps + 1
    /\ UNCHANGED <<pnet, convVars, poolVars, dropVars, netVars>>

\* q = p + other, q = -p, q = p < other, ...
SPOperator ==
    /\ spOps < MaxOps
    /\ \E s \in Slots, d \in {"q"}, op \in NonMutatingOps, other \in Operands :
          /\ sp[s] # None
          /\ ComputeDefined(op, SPValues(heap, sp[s].layer_data), EnsureValues(heap, other), FALSE)
          /\ LET r == NonMutatingCall(heap, sp[s].layer_data, op, other)
             IN /\ heap' = r.heap
                /\ sp' = IF r.status = "ok" THEN [sp EXCEPT ![d] = r.value] ELSE sp
                /\ spRes' = [op |-> op, status |-> r.status,
                             value |-> r.value, before |-> Snapshot(s)]
    /\ spOps' = spOps + 1
    /\ UNCHANGED <<pnet, convVars, poolVars, dropVars, netVars>>

\* p += other, p -= other, ...
SPInPlace ==
    /\ spOps < MaxOps
    /\ \E s \in Slots, op \in InPlaceOps, other \in Operands :
          /\ sp[s] # None
          /\ ComputeDefined(op, SPValues(heap, sp[s].layer_data), EnsureValues(heap, other), TRUE)
          /\ LET r == InPlaceCall(heap, sp[s].layer_data, op, other)
             IN /\ heap' = r.heap
                /\ spRes' = [op |-> op, status |-> r.status,
                             other |-> EnsureValues(heap, other), before |-> Snapshot(s)]
    /\ spOps' = spOps + 1
    /\ UNCHANGED <<sp, pnet, convVars, poolVars, dropVars, netVars>>

\* p.clip(min_, max_)
SPClip ==
    /\ spOps < MaxOps
    /\ \E s \in Slots, min_ \in {2}, max_ \in {3} :
          /\ sp[s] # None
          /\ \A i \in 1..Len(SPValues(heap, sp[s].layer_data)) : SPValues(heap, sp[s].layer_data)[i].dtype = "float"
          /\ LET r == ClipCall(heap, sp[s].layer_data, min_, max_)
             IN /\ heap' = r.heap
                /\ spRes' = [op |-> "clip", status |-> r.status, min_ |-> min_, max_ |-> max_,
                             before |-> Snapshot(s)]
    /\ spOps' = spOps + 1
    /\ UNCHANGED <<sp, pnet, convVars, poolVars, dropVars, netVars>>

\* p.values = values
SPAssignValues ==
    /\ spOps < MaxOps
    /\ \E s \in Slots :
          /\ sp[s] # None
          /\ \E values \in PlainValues(Len(SPValues(heap, sp[s].layer_data))) :
                LET r == SPSetValues(heap, sp[s].layer_data, values)
                IN /\ heap' = r.heap
                   /\ spRes' = [op |-> "set_values", status |-> r.status,
                                values |-> values, before |-> Snapshot(s)]
    /\ spOps' = spOps + 1
    /\ UNCHANGED <<sp, pnet, convVars, poolVars, dropVars, netVars>>

\* net.params = p
SPNetSetParams ==
    /\ spOps < MaxOps
    /\ \E s \in Slots :
          /\ sp[s] # None
          /\ LET r == NetParamsSet(heap, pnet, sp[s])
             IN /\ heap' = r.heap
                /\ spRes' = [op |-> "set_params", status |-> r.status,
                             values |-> SPValues(heap, sp[s].layer_data),
                             before |-> [recv |-> NetParamsGet(pnet).layer_data, heap |-> heap]]
    /\ spOps' = spOps + 1
    /\ UNCHANGED <<sp, pnet, convVars, poolVars, dropVars, netVars>>

ParamNext ==
    \/ SPGetParams \/ SPConstruct \/ SPOperator \/ SPInPlace \/ SPClip
    \/ SPAssignValues \/ SPNetSetParams

ParamInit ==
    /\ IdleConv /\ IdlePool /\ IdleDrop /\ IdleNet
    /\ \E dicts \in ParamNets :
          /\ heap = dicts
          /\ pnet = [i \in 1..Len(dicts) |-> i]
    /\ sp = [s \in Slots |-> None]
    /\ spRes = NoCall
    /\ spOps = 0

SpecParam == ParamInit /\ [][ParamNext]_vars

(***************************************************************************)
(* Claims about StructuredParam.                                           *)
(***************************************************************************)
SetterOps == {"set_values", "set_params"}
ReceiverSlots == Len(SPValues(spRes.before.heap, spRes.before.recv))

\* C6: writing a value sequence into a StructuredParam (the values setter,
\* and Net.params assignment) fails with an error whenever the number of
\* supplied tensors differs from the number of slots of the receiver, shorter
\* or longer; for equal length it succeeds and slot i holds entry i.
C6_SetterChecksLength ==
    spRes.op \in SetterOps =>
       /\ Len(spRes.values) # ReceiverSlots => spRes.status # "ok"
       /\ Len(spRes.values) = ReceiverSlots =>
             /\ spRes.status = "ok"
             /\ SPValues(heap, spRes.before.recv) = spRes.values

\* the values an in-place operator or clip leaves in the receiver
ExpectedInPlace ==
    LET old == SPValues(spRes.before.heap, spRes.before.recv)
    IN IF spRes.op = "clip"
       THEN [i \in 1..Len(old) |-> ClipValue(old[i], spRes.min_, spRes.max_)]
       ELSE [i \in 1..Len(old) |-> ElemOp(spRes.op, old[i], OperandAt(spRes.other, i))]

\* C9: a non-mutating operator leaves every layer map of the receiver, and
\* every layer's params of the network, as they were, and what it returns is
\* a StructuredParam of new maps; an in-place operator or clip that succeeds
\* leaves its result in the receiver's own maps.
C9_OperatorFrame ==
    /\ spRes.op \in NonMutatingOps =>
          /\ \A n \in 1..Len(spRes.before.recv) :
                heap[spRes.before.recv[n]] = spRes.before.heap[spRes.before.recv[n]]
          /\ \A i \in 1..Len(pnet) : heap[pnet[i]] = spRes.before.heap[pnet[i]]
          /\ spRes.status = "ok" =>
                /\ Len(spRes.value.layer_data) = Len(spRes.before.recv)
                /\ \A n \in 1..Len(spRes.value.layer_data) :
                      spRes.value.layer_data[n] > Len(spRes.before.heap)
    /\ (spRes.op \in InPlaceOps \cup {"clip"} /\ spRes.status = "ok") =>
          SPValues(heap, spRes.before.recv) = ExpectedInPlace

\* an operator returned a StructuredParam for a receiver obtained from
\* Net.params that holds tensors
C9_Witness ==
    /\ spRes.op \in NonMutatingOps
    /\ spRes.status = "ok"
    /\ spRes.before.recv = pnet
    /\ Len(SPValues(heap, pnet)) > 1
    /\ SPValues(heap, spRes.value.layer_data) # SPValues(heap, pnet)

====
